---- MODULE Spec2Model ----
(***************************************************************************)
(* Model of msnoise/s03compute_no_rotation.py (MSNoise compute_cc step).   *)
(*                                                                         *)
(* Several instances of main() run against one job table.  Each instance   *)
(* claims the CC jobs of one day, asks the preprocessor for that day's     *)
(* waveform stream, slides a corr_duration window over it, drops channels  *)
(* with gaps or of the wrong length, correlates the surviving channels per *)
(* filter, stacks the windows of the day, and marks the jobs Done.         *)
(*                                                                         *)
(* Units.  Time is counted in samples at goal_sampling_rate = Fs Hz.  A    *)
(* channel of a stream is the set of its traces, a trace being the pair    *)
(* <<first, last>> of the sample indices it spans; two traces of a channel *)
(* are separated by at least one missing sample.  corr_duration is in      *)
(* seconds, maxlag in quarter seconds (maxlag4) and overlap in halves      *)
(* (overlap2), so that non-integer maxlag/dt and overlap = 0.5 are exact.  *)
(* Filter corner frequencies are in units of 1/FreqDen Hz.                 *)
(***************************************************************************)
EXTENDS Integers, Sequences, FiniteSets, TLC

VARIABLES
    params,      \* get_params(db) plus get_filters(db): the configuration
    archive,     \* what preprocess() returns for each day (all stations)
    cc,          \* job table, jobtype CC: (day, pair) -> "-", "T", "I", "D"
    stackjobs,   \* job table, jobtype STACK: (day, pair) -> number of T rows
    holders,     \* history: (day, pair) -> instances get_next_job gave it to
    pc,          \* position of each instance of main()
    jobs,        \* main's `jobs` of each instance (the claimed batch)
    stream,      \* main's `stream` of each instance
    todo,        \* window start times stream.slide still has to yield
    allcorr,     \* main's `allcorr` of each instance
    exported,    \* window-level CCFs written by export_allcorr2
    stacks,      \* daily stacks written by add_corr(day=True)
    wins,        \* history: what each iteration of the slide loop of the
                 \* current batch held at lines 262, 300-349 and 369
    keys,        \* allcorr.keys() of each instance: the keys of allcorr in
                 \* the order of their insertion
    pos          \* iterations completed by the `for job in jobs` or the
                 \* `for ccfid in allcorr.keys()` loop an instance is in

vars == <<params, archive, cc, stackjobs, holders, pc, jobs, stream, todo,
          allcorr, exported, stacks, wins, keys, pos>>

----------------------------------------------------------------------------
(* Bounds of the model *)

NumRunners == 2
NumDays == 2
\* half of the short and of the long corr_duration, in seconds
HalfWin == 3
LongHalfWin == 1200
\* corr_duration windows in one day
WinPerDay == 3

(* Program and input constants *)

Fs == 1
FreqDen == 10
napod == 100

Runners == 1..NumRunners
Days == 1..NumDays
\* the corr_duration values configured; even, so that overlap = 0.5 gives a
\* whole step
ShortWin == 2 * HalfWin
LongWin == 2 * LongHalfWin
\* one calendar day of samples is 0 .. DaySamples(cd)-1
DaySamples(cd) == WinPerDay * cd * Fs

Stations == {"A", "B", "C"}
Pairs == {<<"A", "B">>, <<"B", "C">>}
JobKeys == Days \X Pairs

Max(S) == CHOOSE x \in S : \A y \in S : y <= x
Min(S) == CHOOSE x \in S : \A y \in S : x <= y

----------------------------------------------------------------------------
(* Channels and streams *)

Comps == {"E", "N", "Z"}
Channels == Stations \X Comps

StaIdx(s) == CASE s = "A" -> 0 [] s = "B" -> 1 [] s = "C" -> 2
CompIdx(c) == CASE c = "E" -> 0 [] c = "N" -> 1 [] c = "Z" -> 2
\* position of a channel id in tmp.sort() order (network.station.loc.channel)
Rank(ch) == 3 * StaIdx(ch[1]) + CompIdx(ch[2])

Restrict(f, S) == [x \in S |-> f[x]]

\* number of samples of a trace
npts(tr) == tr[2] - tr[1] + 1

\* what a channel of the archive can hold for one day: nothing; the whole
\* day; the day with the middle sample of every corr_duration missing; only
\* the first half of the first window; the day from its second sample on;
\* the day from the middle of the first window on; one sample less than
\* corr_duration * Fs samples
Full(cd) == {<<0, DaySamples(cd) - 1>>}
Gappy(cd) ==
    LET w == cd * Fs
        h == (cd * Fs) \div 2
    IN {<<0, h - 1>>, <<(WinPerDay - 1) * w + h + 1, DaySamples(cd) - 1>>}
       \cup {<<k * w + h + 1, (k + 1) * w + h - 1>> : k \in 0..(WinPerDay - 2)}
ShortTrace(cd) == {<<0, ((cd * Fs) \div 2) - 1>>}
Late(cd) == {<<1, DaySamples(cd) - 1>>}
LateHalf(cd) == {<<(cd * Fs) \div 2, DaySamples(cd) - 1>>}
NearWindow(cd) == {<<0, cd * Fs - 2>>}
\* only the first corr_duration of the day, both of its ends included
FirstWindow(cd) == {<<0, cd * Fs>>}
\* the day with the middle sample of its first corr_duration missing
OneGap(cd) ==
    {<<0, ((cd * Fs) \div 2) - 1>>, <<((cd * Fs) \div 2) + 1, DaySamples(cd) - 1>>}
Patterns(cd) ==
    {{}, Full(cd), Gappy(cd), ShortTrace(cd), Late(cd), LateHalf(cd)}
LongPatterns == {Full(LongWin), Gappy(LongWin), NearWindow(LongWin)}

ZChannels == {ch \in Channels : ch[2] = "Z"}
\* what the archive can hold for one day
Bundles == [ZChannels -> Patterns(ShortWin)]
LongBundles == [ZChannels -> LongPatterns]
EmptyBundle == [ch \in ZChannels |-> {}]
FullBundle == [ch \in ZChannels |-> Full(ShortWin)]
ShortBundle == [ch \in ZChannels |-> ShortTrace(ShortWin)]
FirstWindowBundle == [ch \in ZChannels |-> FirstWindow(ShortWin)]

\* a day of three-component data: station A has E, N and Z, station B has
\* N and Z only
CompChannels ==
    {<<"A", "E">>, <<"A", "N">>, <<"A", "Z">>, <<"B", "N">>, <<"B", "Z">>}
CompPatterns == {{}, Full(ShortWin), OneGap(ShortWin), LateHalf(ShortWin)}
CompBundles == [CompChannels -> CompPatterns]

\* lines 208-216: stations of the claimed batch
StationsOf(js) == {k[2][1] : k \in js} \cup {k[2][2] : k \in js}

\* lines 222-230: single components to load
CompsOf(p) ==
    UNION {IF c[1] \in {"R", "T"} \/ c[2] \in {"R", "T"}
           THEN {"E", "N"} ELSE {c[1], c[2]} : c \in p.components_to_compute}

\* WaveformPreprocessor.get_bundle: the day's channels of the requested
\* stations and components that have data
preprocess(arch, stations, comps, day) ==
    Restrict(arch[day],
             {ch \in DOMAIN arch[day] :
                 /\ ch[1] \in stations
                 /\ ch[2] \in comps
                 /\ arch[day][ch] # {}})

----------------------------------------------------------------------------
(* stream.slide(corr_duration, corr_duration * (1 - overlap)) *)

\* the traces of a stream, whatever their channel
Traces(st) == UNION {st[ch] : ch \in DOMAIN st}

\* corr_duration and corr_duration * (1 - overlap), in samples
WinLen(p) == p.corr_duration * Fs
SlideStep(p) == (WinLen(p) * (2 - p.overlap2)) \div 2

\* the part of a channel's traces that lies in [lo, hi]
Cut(trs, lo, hi) ==
    {<<IF tr[1] < lo THEN lo ELSE tr[1], IF tr[2] > hi THEN hi ELSE tr[2]>> :
        tr \in {x \in trs : x[1] <= hi /\ x[2] >= lo}}

\* a window spans [i, i + corr_duration], both ends included
Slice(st, i, p) ==
    LET cut == [ch \in DOMAIN st |-> Cut(st[ch], i, i + WinLen(p))]
    IN Restrict(cut, {ch \in DOMAIN st : cut[ch] # {}})

\* start times of the windows slide yields.  Left sides advance by the step
\* from the stream's start and stay below its end less a thousandth of the
\* step; a window ends at the stream's end at the latest, and is not
\* yielded (include_partial_windows=False) unless it is longer than 99.9 %
\* of corr_duration, nor is a window without data
WindowStarts(st, p) ==
    LET first == Min({tr[1] : tr \in Traces(st)})
        last == Max({tr[2] : tr \in Traces(st)})
        step == SlideStep(p)
        stop(i) == IF i + WinLen(p) < last THEN i + WinLen(p) ELSE last
    IN {i \in {first + j * step : j \in 0..((last - first) \div step)} :
           /\ 1000 * i < 1000 * last - step
           /\ 1000 * (stop(i) - i) > 999 * WinLen(p)
           /\ DOMAIN Slice(st, i, p) # {}}

RECURSIVE SortedSeq(_)
SortedSeq(S) == IF S = {} THEN <<>> ELSE <<Min(S)>> \o SortedSeq(S \ {Min(S)})

\* the elements of S in the order of their rank
RECURSIVE OrderedBy(_, _)
OrderedBy(S, rank) ==
    IF S = {} THEN <<>>
    ELSE LET x == CHOOSE y \in S : \A z \in S : rank[y] <= rank[z]
         IN <<x>> \o OrderedBy(S \ {x}, rank)

\* a step of 0 makes the window arithmetic divide by zero: slide raises
SlideRaises(p) == SlideStep(p) = 0

slide(st, p) == SortedSeq(WindowStarts(st, p))

----------------------------------------------------------------------------
(* Double-precision arithmetic of lines 239 and 353-357.  A natural number *)
(* is kept in NumLimbs limbs of LimbBits bits, least significant first; a  *)
(* double is m * 2^e with 2^52 <= m < 2^53, or zero.                       *)

MantBits == 53
LimbBits == 15
NumLimbs == 8
FracLimbs == 6
RecipBits == 107
DivChunk == 16
LimbBase == 2^LimbBits
Limbs == 1..NumLimbs

RECURSIVE Pow2(_)
Pow2(n) == IF n = 0 THEN 1 ELSE 2 * Pow2(n - 1)

RECURSIVE Carry(_, _, _)
Carry(raw, i, c) ==
    IF i > NumLimbs THEN <<>>
    ELSE <<(raw[i] + c) % LimbBase>>
         \o Carry(raw, i + 1, (raw[i] + c) \div LimbBase)
\* the limbs of the number whose limbs, carries not yet propagated, are raw
Normalize(raw) == Carry(raw, 1, 0)

\* the number n < LimbBase
Big(n) == Normalize([i \in Limbs |-> IF i = 1 THEN n ELSE 0])

BigTimes(x, k) == Normalize([i \in Limbs |-> x[i] * k])
BigPlus(x, y) == Normalize([i \in Limbs |-> x[i] + y[i]])
\* x - y for x >= y
BigMinus(x, y) ==
    Normalize([i \in Limbs |->
                  x[i] + (LimbBase - 1 - y[i]) + (IF i = 1 THEN 1 ELSE 0)])
BigCmp(x, y) ==
    LET d == {i \in Limbs : x[i] # y[i]}
    IN IF d = {} THEN 0 ELSE IF x[Max(d)] > y[Max(d)] THEN 1 ELSE -1

\* bit j of x, bit 0 the least significant
BitAt(x, j) == (x[(j \div LimbBits) + 1] \div Pow2(j % LimbBits)) % 2
BitLength(x) ==
    IF x = Big(0) THEN 0
    ELSE LET top == Max({i \in Limbs : x[i] # 0})
         IN (top - 1) * LimbBits
            + Min({n \in 1..LimbBits : x[top] < Pow2(n)})

ShiftRight(x, s) ==
    LET q == s \div LimbBits
        r == s % LimbBits
    IN Normalize([i \in Limbs |->
           (IF i + q \in Limbs THEN x[i + q] \div Pow2(r) ELSE 0)
           + (IF i + q + 1 \in Limbs
              THEN (x[i + q + 1] % Pow2(r)) * Pow2(LimbBits - r) ELSE 0)])
RECURSIVE ShiftLeft(_, _)
ShiftLeft(x, s) ==
    IF s < LimbBits THEN BigTimes(x, Pow2(s))
    ELSE ShiftLeft(BigTimes(x, Pow2(LimbBits - 1)), s - (LimbBits - 1))

FloatZero == [m |-> Big(0), e |-> 0]

\* the double nearest to (x + t) * 2^e, ties to even, where 0 <= t < 1 and
\* t > 0 iff sticky
Round(x, e, sticky) ==
    LET n == BitLength(x)
        s == n - MantBits
    IN IF n = 0 THEN FloatZero
       ELSE IF s <= 0 THEN [m |-> ShiftLeft(x, -s), e |-> e + s]
       ELSE LET m0 == ShiftRight(x, s)
                rest == sticky \/ \E j \in 0..(s - 2) : BitAt(x, j) = 1
                up == BitAt(x, s - 1) = 1 /\ (rest \/ BitAt(m0, 0) = 1)
                m1 == IF up THEN BigPlus(m0, Big(1)) ELSE m0
            IN IF BitAt(m1, MantBits) = 1
               THEN [m |-> ShiftRight(m1, 1), e |-> e + s + 1]
               ELSE [m |-> m1, e |-> e + s]

\* the double a / b of two integers below LimbBase (float(a) / float(b), or
\* the decimal a/b read as a double)
RECURSIVE RatioRem(_, _, _)
RatioRem(a, b, j) ==
    IF j = 0 THEN a % b ELSE (RatioRem(a, b, j - 1) * LimbBase) % b
FromRatio(a, b) ==
    Round(Normalize([i \in Limbs |->
              IF i > FracLimbs + 1 THEN 0
              ELSE IF i = FracLimbs + 1 THEN a \div b
              ELSE (RatioRem(a, b, FracLimbs - i) * LimbBase) \div b]),
          -(FracLimbs * LimbBits), RatioRem(a, b, FracLimbs) # 0)

\* one step of a division by m, bit by bit: p holds the quotient and the
\* remainder of the bits of the dividend taken so far, b is its next bit
DivStep(m, p, b) ==
    LET r2 == BigPlus(BigTimes(p.r, 2), Big(b))
    IN IF BigCmp(r2, m) >= 0
       THEN [q |-> BigPlus(BigTimes(p.q, 2), Big(1)), r |-> BigMinus(r2, m)]
       ELSE [q |-> BigTimes(p.q, 2), r |-> r2]
\* j more steps, the bits of the dividend all 0
RECURSIVE LongDiv(_, _, _)
LongDiv(m, j, p) ==
    IF j = 0 THEN p
    ELSE IF p.r = Big(0) THEN [q |-> ShiftLeft(p.q, j), r |-> p.r]
    ELSE LongDiv(m, j - 1, DivStep(m, p, 0))
\* the same, DivChunk steps at a time
RECURSIVE LongDivBy(_, _, _)
LongDivBy(m, j, p) ==
    IF j <= DivChunk THEN LongDiv(m, j, p)
    ELSE LongDivBy(m, j - DivChunk, LongDiv(m, DivChunk, p))

\* 1.0 / y: the quotient of 2^RecipBits by y.m, rounded.  The first
\* MantBits - 1 bits of the dividend leave the quotient 0 and the remainder
\* 2^(MantBits - 2), which is less than y.m
Recip(y) ==
    LET d == LongDivBy(y.m, RecipBits - (MantBits - 2),
                       [q |-> Big(0), r |-> ShiftLeft(Big(1), MantBits - 2)])
    IN Round(d.q, -RecipBits - y.e, d.r # Big(0))

\* k * x for an integer k below LimbBase
FloatTimes(k, x) ==
    IF k = 0 THEN FloatZero ELSE Round(BigTimes(x.m, k), x.e, FALSE)

\* x <= y for doubles that are not negative
FloatLeq(x, y) ==
    IF x.m = Big(0) THEN TRUE
    ELSE IF y.m = Big(0) THEN FALSE
    ELSE IF x.e # y.e THEN x.e < y.e
    ELSE BigCmp(x.m, y.m) <= 0

\* line 239: dt = 1. / params.goal_sampling_rate
dt == FromRatio(1, Fs)

\* fftfreq(nfft, d=dt)[k] = k * val with val = 1.0 / (nfft * dt)
fftfreq(nfft, k) == FloatTimes(k, Recip(FloatTimes(nfft, dt)))

----------------------------------------------------------------------------
(* One window of the slide loop, lines 245-387 *)

\* lines 249-253: channels for which get_gaps reports a gap of positive length
channels_to_remove(tmp) == {ch \in DOMAIN tmp : Cardinality(tmp[ch]) > 1}

\* the gap test never true: no channel is removed
RemoveGapsNone(tmp) == tmp

\* lines 255-262
RemoveGaps(tmp) == Restrict(tmp, DOMAIN tmp \ channels_to_remove(tmp))

\* line 267
base(tmp) == Max({npts(tr) : tr \in Traces(tmp)})

\* line 268: base <= maxlag * goal_sampling_rate * 2 + 1
TooShort(b, p) == 4 * b <= p.maxlag4 * Fs * 2 + 4

\* lines 300-301: the rows of `data` and `names`, in the order of tmp (one
\* trace per channel is left once the channels with gaps are removed)
names(tmp) ==
    [n \in 1..Cardinality(DOMAIN tmp) |->
        CHOOSE ch \in DOMAIN tmp :
            Cardinality({o \in DOMAIN tmp : Rank(o) < Rank(ch)}) = n - 1]

\* the loop of lines 273-276 run over the list it removes from: the
\* element that follows a removed one is not visited
RECURSIVE RemoveWhileIterating(_, _, _)
RemoveWhileIterating(L, n, tmp) ==
    IF n > Len(L) THEN L
    ELSE IF \E tr \in tmp[L[n]] : npts(tr) # base(tmp)
    THEN RemoveWhileIterating(SubSeq(L, 1, n - 1) \o SubSeq(L, n + 1, Len(L)),
                              n + 1, tmp)
    ELSE RemoveWhileIterating(L, n + 1, tmp)
RemoveShortSkipping(tmp) ==
    LET L == RemoveWhileIterating(names(tmp), 1, tmp)
    IN Restrict(tmp, {L[n] : n \in DOMAIN L})

\* lines 273-276: `for tr in tmp` iterates over a copy of the trace list,
\* so that every trace is visited whatever is removed
RemoveShort(tmp) ==
    LET kept == [ch \in DOMAIN tmp |->
                    {tr \in tmp[ch] : npts(tr) = base(tmp)}]
    IN Restrict(kept, {ch \in DOMAIN tmp : kept[ch] # {}})

NoTraces == Restrict(EmptyBundle, {})

\* lines 249-280: the traces of the window that reach line 282, none when
\* the window is skipped by one of the three `continue`
GapFilter(tmp, p) ==
    LET nogaps == RemoveGaps(tmp)
    IN IF DOMAIN nogaps = {} THEN NoTraces
       ELSE IF TooShort(base(nogaps), p) THEN NoTraces
       ELSE RemoveShort(nogaps)

\* tmp[0] after tmp.sort(): the earliest trace of the first channel id
FirstChannel(tmp) ==
    CHOOSE ch \in DOMAIN tmp : \A o \in DOMAIN tmp : Rank(ch) <= Rank(o)
FirstTrace(tmp) ==
    CHOOSE tr \in tmp[FirstChannel(tmp)] :
        \A o \in tmp[FirstChannel(tmp)] : tr[1] <= o[1]

RECURSIVE Smooth235(_)
Smooth235(n) ==
    IF n <= 1 THEN TRUE
    ELSE IF n % 2 = 0 THEN Smooth235(n \div 2)
    ELSE IF n % 3 = 0 THEN Smooth235(n \div 3)
    ELSE IF n % 5 = 0 THEN Smooth235(n \div 5)
    ELSE FALSE

\* line 282: the next composite of 2, 3 and 5 that is >= n
RECURSIVE next_fast_len(_)
next_fast_len(n) == IF Smooth235(n) THEN n ELSE next_fast_len(n + 1)

\* lines 332-334: strftime of the first trace's start time, whole seconds
thistime(tmp) == FirstTrace(tmp)[1] \div Fs

\* pair_index without the test of line 346
pair_index_any_component(tmp, p) ==
    {[id |-> <<c1[1], c2[1], <<c1[2], c2[2]>> >>, i1 |-> c1, i2 |-> c2] :
        <<c1, c2>> \in
            {pr \in (DOMAIN tmp) \X (DOMAIN tmp) :
                IF p.autocorr THEN Rank(pr[1]) <= Rank(pr[2])
                              ELSE Rank(pr[1]) < Rank(pr[2])}}

\* combinations_with_replacement whatever params.autocorr
pair_index_with_replacement(tmp, p) ==
    {[id |-> <<c1[1], c2[1], <<c1[2], c2[2]>> >>, i1 |-> c1, i2 |-> c2] :
        <<c1, c2>> \in
            {pr \in (DOMAIN tmp) \X (DOMAIN tmp) :
                /\ Rank(pr[1]) <= Rank(pr[2])
                /\ <<pr[1][2], pr[2][2]>> \in p.components_to_compute}}

\* lines 335-349
pair_index(tmp, p) ==
    {[id |-> <<c1[1], c2[1], <<c1[2], c2[2]>> >>, i1 |-> c1, i2 |-> c2] :
        <<c1, c2>> \in
            {pr \in (DOMAIN tmp) \X (DOMAIN tmp) :
                /\ IF p.autocorr THEN Rank(pr[1]) <= Rank(pr[2])
                                 ELSE Rank(pr[1]) < Rank(pr[2])
                /\ <<pr[1][2], pr[2][2]>> \in p.components_to_compute}}

\* lines 353-357: freq_vec[k] >= c / FreqDen and freq_vec[k] <= c / FreqDen,
\* both sides doubles.  A double differs from the number it rounds by less
\* than 2^-52 of it and the numbers k * Fs / nfft and c / FreqDen, when they
\* differ, differ by 1 / (nfft * FreqDen) at least: the doubles are ordered
\* as the numbers, except where the numbers are equal and the rounding of
\* k * (1.0 / (nfft * dt)) decides
AtLeast(nfft, k, c) ==
    IF k * Fs * FreqDen # c * nfft THEN k * Fs * FreqDen > c * nfft
    ELSE FloatLeq(FromRatio(c, FreqDen), fftfreq(nfft, k))
AtMost(nfft, k, c) ==
    IF k * Fs * FreqDen # c * nfft THEN k * Fs * FreqDen < c * nfft
    ELSE FloatLeq(fftfreq(nfft, k), FromRatio(c, FreqDen))

\* lines 356-357: indices of the FFT bins freq_vec[k], k < nfft // 2, with
\* low <= freq_vec[k] <= high
freq_sel(nfft, f) ==
    {k \in 0..((nfft \div 2) - 1) :
        AtLeast(nfft, k, f.low) /\ AtMost(nfft, k, f.high)}

\* lines 358-365: <<low, high, p1, p2>> handed to whiten2
WhitenBounds(nfft, sel) ==
    LET lo == Min(sel) - napod
        hi == Max(sel) + napod
    IN <<IF lo <= 0 THEN 1 ELSE lo,
         IF 2 * hi > nfft THEN nfft \div 2 ELSE hi,
         Min(sel), Max(sel)>>

\* line 376: np.ceil(params.maxlag / dt), dt = 1 / goal_sampling_rate
MaxlagSamples(p) == (p.maxlag4 * Fs + 3) \div 4

\* CrossCorrelationEngine: the lags -maxlag..maxlag cut out of the 2*nfft-1
\* lags of the inverse transform
myCorr2(maxlag, index, nfft) ==
    [pi \in index |->
        [npts |-> Min({2 * maxlag + 1, 2 * nfft - 1}), nfft |-> nfft]]

\* lines 282-387 for the traces that passed the gap filter: the entries
\* written to allcorr, or raised when freq_sel[0] indexes an empty selection
Correlate(tmp, p) ==
    LET nfft == next_fast_len(npts(FirstTrace(tmp)))
        index == pair_index(tmp, p)
        corr == myCorr2(MaxlagSamples(p), index, nfft)
        fs == {p.filters[n] : n \in 1..Len(p.filters)}
    IN IF \E f \in fs : freq_sel(nfft, f) = {}
       THEN [raised |-> TRUE, entries |-> {}]
       ELSE [raised |-> FALSE,
             entries |->
                {[ccfid |-> <<pi.id[1], pi.id[2], pi.id[3], f.ref>>,
                  thistime |-> thistime(tmp),
                  corr |-> corr[pi]] : pi \in index, f \in fs}]

\* lines 245-387 for the window starting at i
Window(st, i, p) ==
    LET tmp == GapFilter(Slice(st, i, p), p)
    IN IF DOMAIN tmp = {} THEN [raised |-> FALSE, entries |-> {}]
       ELSE Correlate(tmp, p)

\* names.index(x): the first row that holds x (rows are counted from 1)
index(nm, x) == Min({n \in DOMAIN nm : nm[n] = x})

\* lines 304-311: channel_index[netsta][component letter] = row
channel_index(nm) ==
    [s \in {nm[n][1] : n \in DOMAIN nm} |->
        [c \in {nm[n][2] : n \in {m \in DOMAIN nm : nm[m][1] = s}} |->
            Max({n \in DOMAIN nm : nm[n] = <<s, c>>})]]

\* every row averaged with every row of the same component letter
psds_by_component(nm) ==
    [n \in DOMAIN nm |-> {m \in DOMAIN nm : nm[m][2] = nm[n][2]}]

\* lines 313-328: psds after the pooling loop.  The magnitude spectrum
\* sqrt(pxx) of a row is kept as the set of the rows of whose magnitude
\* spectra it is the element-wise mean: {n} for row n as computed at lines
\* 313-317, {i_e, i_n} for both rows of a station that has E and N
psds(nm) ==
    LET ci == channel_index(nm)
    IN [n \in DOMAIN nm |->
           LET comps == ci[nm[n][1]]
           IN IF /\ "E" \in DOMAIN comps
                 /\ "N" \in DOMAIN comps
                 /\ n \in {comps["E"], comps["N"]}
              THEN {comps["E"], comps["N"]}
              ELSE {n}]

\* SpectralWhitener.  whiten2 is handed the spectra of all rows at once
\* (line 369), without the pairs: it returns, for each row, whether the
\* spectrum is whitened.  "N" passes the spectra through
whiten2(nrows, whitening) == [n \in 1..nrows |-> whitening # "N"]

\* lines 347-349: pair_index with names.index(sta1), names.index(sta2)
PairRows(nm, pindex) ==
    {[id |-> pi.id, i1 |-> index(nm, pi.i1), i2 |-> index(nm, pi.i2)] :
        pi \in pindex}

\* what the iteration for the window starting at i holds: the slice, the
\* sample count of the channels left at line 262, and for a window that
\* reaches line 282 the rows of data (names, sample counts), psds after
\* pooling, pair_index, and the rows of ffts that whiten2 whitened (the
\* same for every filter)
WindowLog(st, i, p) ==
    LET sl == Slice(st, i, p)
        nogaps == RemoveGaps(sl)
        tmp == GapFilter(sl, p)
        nm == names(tmp)
        only(trs) == CHOOSE tr \in trs : TRUE
    IN [start |-> i,
        sliced |-> sl,
        nogaps |-> [ch \in DOMAIN nogaps |-> npts(only(nogaps[ch]))],
        names |-> nm,
        npts |-> [n \in DOMAIN nm |-> npts(only(tmp[nm[n]]))],
        psds |-> psds(nm),
        pairs |-> PairRows(nm, pair_index(tmp, p)),
        ffts |-> whiten2(Len(nm), p.whitening)]

\* lines 382-386: allcorr[ccfid][thistime] = corr[key]
PutCorr(ac, entries) ==
    {e \in ac : ~\E n \in entries :
                    n.ccfid = e.ccfid /\ n.thistime = e.thistime} \cup entries

\* position of the filter of id ref in `filters`
FilterPos(p, ref) == Min({n \in 1..Len(p.filters) : p.filters[n].ref = ref})

\* lines 351 and 382: the keys of one window are met filter by filter, and
\* for one filter in the order of pair_index, which is that of
\* itertools.combinations over the sorted names
KeyRank(id, p) ==
    (FilterPos(p, id[4]) * Cardinality(Channels) + Rank(<<id[1], id[3][1]>>))
        * Cardinality(Channels) + Rank(<<id[2], id[3][2]>>)

\* lines 384-385: a key that is not in allcorr is inserted after those
\* that are
PutKeys(ks, entries, p) ==
    LET new == {e.ccfid : e \in entries} \ {ks[n] : n \in 1..Len(ks)}
    IN ks \o OrderedBy(new, [id \in new |-> KeyRank(id, p)])

----------------------------------------------------------------------------
(* Stacking and saving, lines 392-420 *)

\* line 394: export_allcorr2 writes the CCFs of every window of one key
export_allcorr2(ac, day, id) ==
    {[day |-> day, ccfid |-> e.ccfid, thistime |-> e.thistime] :
        e \in {x \in ac : x.ccfid = id}}

\* StackAccumulator: the stacked sequence has the length of the windows' CCFs
stack(corrs) == [npts |-> Max({e.corr.npts : e \in corrs})]

\* lines 398-420: the daily stack add_corr writes for one key of allcorr
DailyStack(ac, day, id) ==
    LET corrs == {e \in ac : e.ccfid = id}
    IN [day |-> day, station1 |-> id[1], station2 |-> id[2],
        components |-> id[3], filterid |-> id[4],
        ncorr |-> Cardinality(corrs), npts |-> stack(corrs).npts]

\* lines 396-420: the daily stacks of all the keys of allcorr
DailyStacks(ac, day) == {DailyStack(ac, day, id) : id \in {e.ccfid : e \in ac}}

StackKey(s) == <<s.day, s.station1, s.station2, s.components, s.filterid>>

\* add_corr(day=True) writes one file per key and day
PutStacks(old, new) ==
    {s \in old : ~\E n \in new : StackKey(n) = StackKey(s)} \cup new

----------------------------------------------------------------------------
(* JobStore *)

\* has_pending
is_next_job(table) == \E k \in JobKeys : table[k] = "T"

\* claim_next: the Todo jobs of one day
TodoOfDay(table, d) == {k \in JobKeys : k[1] = d /\ table[k] = "T"}

\* a claim that returns the jobs without flagging them
get_next_job_unflagged(table, js) == table

\* claim_next: the transactional update that flags the returned jobs "I"
get_next_job(table, js) == [k \in JobKeys |-> IF k \in js THEN "I" ELSE table[k]]

\* mark_many
massive_update_job(table, js, flag) ==
    [k \in JobKeys |-> IF k \in js THEN flag ELSE table[k]]

\* an update_job that is not restricted to its job
update_job_all(table, k, flag) == [j \in JobKeys |-> flag]

\* mark: update_job(db, job.day, job.pair, 'CC', flag) of line 236
update_job(table, k, flag) == [table EXCEPT ![k] = flag]

\* an update_job that does not reach the table
enqueue_stack_none(table, k) == table

\* enqueue: update_job(db, job.day, job.pair, 'STACK', 'T') of line 426
enqueue_stack(table, k) == [table EXCEPT ![k] = @ + 1]

\* `jobs`: the list claim_next returns, the pairs of the day in the order of
\* the job table
PairIdx(k) == Cardinality(Stations) * StaIdx(k[2][1]) + StaIdx(k[2][2])
JobSeq(js) == OrderedBy(js, [k \in js |-> PairIdx(k)])

\* line 214
goal_day(js) == (CHOOSE k \in js : TRUE)[1]

----------------------------------------------------------------------------
(* Configurations *)

GoodBand == [ref |-> 1, low |-> 1, high |-> 5]
WideBand == [ref |-> 2, low |-> 0, high |-> 5]
\* a band above the Nyquist frequency: no FFT bin lies in it
NoBinBand == [ref |-> 3, low |-> 6, high |-> 9]

\* maxlag of 1 s; of corr_duration/2 - 0.75 s, so that maxlag/dt is not whole;
\* of corr_duration/2, which no window can hold
WholeMaxlag4 == 4 * 1
FracMaxlag4(cd) == 2 * cd - 3
LongMaxlag4(cd) == 2 * cd

BaseParams(cd) ==
    [corr_duration |-> cd, filters |-> <<GoodBand>>, overlap2 |-> 0,
     maxlag4 |-> WholeMaxlag4, keep_all |-> FALSE, keep_days |-> TRUE,
     components_to_compute |-> {<<"Z", "Z">>}, autocorr |-> FALSE,
     whitening |-> "A"]

ParamSets ==
    LET b == BaseParams(ShortWin)
    IN {b,
        [b EXCEPT !.filters = <<>>],
        [b EXCEPT !.filters = <<NoBinBand>>],
        [b EXCEPT !.filters = <<GoodBand, WideBand>>],
        [b EXCEPT !.overlap2 = 1],
        [b EXCEPT !.overlap2 = 2],
        [b EXCEPT !.maxlag4 = FracMaxlag4(ShortWin)],
        [b EXCEPT !.maxlag4 = LongMaxlag4(ShortWin)],
        [b EXCEPT !.keep_days = FALSE],
        [b EXCEPT !.keep_all = TRUE],
        [b EXCEPT !.autocorr = TRUE]}

\* configurations and bundles of the runs with every day queued
FewParamSets ==
    {BaseParams(ShortWin),
     [BaseParams(ShortWin) EXCEPT !.filters = <<>>],
     [BaseParams(ShortWin) EXCEPT !.filters = <<NoBinBand>>]}
FewBundles == {EmptyBundle, FirstWindowBundle}

\* configurations with a corr_duration of more than a thousand samples
LongParamSets ==
    {BaseParams(LongWin),
     [BaseParams(LongWin) EXCEPT !.overlap2 = 1],
     [BaseParams(LongWin) EXCEPT !.maxlag4 = FracMaxlag4(LongWin)]}

\* configurations that ask for horizontal components
CompParamSets ==
    LET b == BaseParams(ShortWin)
    IN {[b EXCEPT !.components_to_compute = {<<"Z", "Z">>, <<"Z", "N">>},
                  !.whitening = "C"],
        [b EXCEPT !.components_to_compute = {<<"Z", "Z">>, <<"Z", "N">>},
                  !.whitening = "N"],
        [b EXCEPT !.components_to_compute =
                      {<<"E", "N">>, <<"N", "N">>, <<"Z", "Z">>},
                  !.autocorr = TRUE],
        [b EXCEPT !.components_to_compute =
                      {<<"E", "E">>, <<"E", "N">>, <<"N", "Z">>}]}

----------------------------------------------------------------------------
(* main() *)

Holding ==
    {"preprocess", "markempty", "slide", "stack", "markdone", "enqueue"}
\* "off": an instance that was not launched
Stopped == {"finished", "aborted", "crashed", "killed", "off"}

Idle(r) ==
    /\ jobs' = [jobs EXCEPT ![r] = {}]
    /\ stream' = [stream EXCEPT ![r] = NoTraces]
    /\ todo' = [todo EXCEPT ![r] = <<>>]
    /\ allcorr' = [allcorr EXCEPT ![r] = {}]
    /\ wins' = [wins EXCEPT ![r] = <<>>]
    /\ keys' = [keys EXCEPT ![r] = <<>>]
    /\ pos' = [pos EXCEPT ![r] = 0]

\* main() without the sys.exit() on an empty filter list
StartupUnchecked(r) ==
    /\ pc[r] = "start"
    /\ pc' = [pc EXCEPT ![r] = "check"]
    /\ UNCHANGED <<params, archive, cc, stackjobs, holders, jobs, stream,
                   todo, allcorr, exported, stacks, wins, keys, pos>>

\* lines 178-194
Startup(r) ==
    /\ pc[r] = "start"
    /\ pc' = [pc EXCEPT ![r] = IF Len(params.filters) = 0
                                THEN "aborted" ELSE "check"]
    /\ UNCHANGED <<params, archive, cc, stackjobs, holders, jobs, stream,
                   todo, allcorr, exported, stacks, wins, keys, pos>>

\* line 195
IsNext(r) ==
    /\ pc[r] = "check"
    /\ pc' = [pc EXCEPT ![r] = IF is_next_job(cc) THEN "claim" ELSE "finished"]
    /\ UNCHANGED <<params, archive, cc, stackjobs, holders, jobs, stream,
                   todo, allcorr, exported, stacks, wins, keys, pos>>

\* a claim that also takes over the jobs of the day left InProgress
GetNextReclaiming(r) ==
    /\ pc[r] = "claim"
    /\ IF is_next_job(cc)
       THEN \E d \in Days :
              LET js == {k \in JobKeys : k[1] = d /\ cc[k] \in {"T", "I"}}
              IN /\ js # {}
                 /\ cc' = get_next_job(cc, js)
                 /\ jobs' = [jobs EXCEPT ![r] = js]
                 /\ holders' = [k \in JobKeys |->
                                  IF k \in js THEN holders[k] \cup {r}
                                  ELSE holders[k]]
                 /\ pc' = [pc EXCEPT ![r] = "preprocess"]
       ELSE /\ pc' = [pc EXCEPT ![r] = "check"]
            /\ UNCHANGED <<cc, jobs, holders>>
    /\ UNCHANGED <<params, archive, stackjobs, stream, todo, allcorr,
                   exported, stacks, wins, keys, pos>>

\* lines 197-202
GetNext(r) ==
    /\ pc[r] = "claim"
    /\ IF is_next_job(cc)
       THEN \E d \in Days :
              LET js == TodoOfDay(cc, d)
              IN /\ js # {}
                 /\ cc' = get_next_job(cc, js)
                 /\ jobs' = [jobs EXCEPT ![r] = js]
                 /\ holders' = [k \in JobKeys |->
                                  IF k \in js THEN holders[k] \cup {r}
                                  ELSE holders[k]]
                 /\ pc' = [pc EXCEPT ![r] = "preprocess"]
       ELSE /\ pc' = [pc EXCEPT ![r] = "check"]
            /\ UNCHANGED <<cc, jobs, holders>>
    /\ UNCHANGED <<params, archive, stackjobs, stream, todo, allcorr,
                   exported, stacks, wins, keys, pos>>

\* lines 204-234 and 238-244: preprocess, then either the branch of the
\* empty stream is entered or stream.slide is set up
Preprocess(r) ==
    /\ pc[r] = "preprocess"
    /\ LET st == preprocess(archive, StationsOf(jobs[r]), CompsOf(params),
                            goal_day(jobs[r]))
       IN IF DOMAIN st = {}
          THEN /\ pc' = [pc EXCEPT ![r] = "markempty"]
               /\ UNCHANGED <<stream, todo>>
          ELSE IF SlideRaises(params)
          THEN /\ pc' = [pc EXCEPT ![r] = "crashed"]
               /\ stream' = [stream EXCEPT ![r] = st]
               /\ UNCHANGED todo
          ELSE /\ pc' = [pc EXCEPT ![r] = "slide"]
               /\ stream' = [stream EXCEPT ![r] = st]
               /\ todo' = [todo EXCEPT ![r] = slide(st, params)]
    /\ UNCHANGED <<params, archive, cc, stackjobs, holders, jobs, allcorr,
                   exported, stacks, wins, keys, pos>>

\* lines 235-237: one iteration of the loop over the jobs of the batch, one
\* update_job call; `continue` follows the last
MarkEmpty(r) ==
    /\ pc[r] = "markempty"
    /\ cc' = update_job(cc, JobSeq(jobs[r])[pos[r] + 1], "D")
    /\ IF pos[r] + 1 = Len(JobSeq(jobs[r]))
       THEN /\ pc' = [pc EXCEPT ![r] = "check"]
            /\ Idle(r)
       ELSE /\ pos' = [pos EXCEPT ![r] = @ + 1]
            /\ UNCHANGED <<pc, jobs, stream, todo, allcorr, wins, keys>>
    /\ UNCHANGED <<params, archive, stackjobs, holders, exported, stacks>>

\* an iteration that removes the channels it drops from `stream` itself
SlideDropping(r) ==
    /\ pc[r] = "slide"
    /\ todo[r] # <<>>
    /\ LET res == Window(stream[r], Head(todo[r]), params)
           log == WindowLog(stream[r], Head(todo[r]), params)
           dropped == DOMAIN log.sliced \ {log.names[n] : n \in DOMAIN log.names}
       IN IF res.raised
          THEN /\ pc' = [pc EXCEPT ![r] = "crashed"]
               /\ UNCHANGED <<todo, allcorr, wins, stream, keys>>
          ELSE /\ allcorr' = [allcorr EXCEPT ![r] = PutCorr(@, res.entries)]
               /\ keys' = [keys EXCEPT ![r] = PutKeys(@, res.entries, params)]
               /\ todo' = [todo EXCEPT ![r] = Tail(@)]
               /\ wins' = [wins EXCEPT ![r] = Append(@, log)]
               /\ stream' = [stream EXCEPT ![r] =
                                Restrict(@, DOMAIN @ \ dropped)]
               /\ UNCHANGED pc
    /\ UNCHANGED <<params, archive, cc, stackjobs, holders, jobs, exported,
                   stacks, pos>>

\* lines 245-387, one iteration of the slide loop
Slide(r) ==
    /\ pc[r] = "slide"
    /\ todo[r] # <<>>
    /\ LET res == Window(stream[r], Head(todo[r]), params)
       IN IF res.raised
          THEN /\ pc' = [pc EXCEPT ![r] = "crashed"]
               /\ UNCHANGED <<todo, allcorr, wins, keys>>
          ELSE /\ allcorr' = [allcorr EXCEPT ![r] = PutCorr(@, res.entries)]
               /\ keys' = [keys EXCEPT ![r] = PutKeys(@, res.entries, params)]
               /\ todo' = [todo EXCEPT ![r] = Tail(@)]
               /\ wins' = [wins EXCEPT ![r] =
                              Append(@, WindowLog(stream[r], Head(todo[r]),
                                                  params))]
               /\ UNCHANGED pc
    /\ UNCHANGED <<params, archive, cc, stackjobs, holders, jobs, stream,
                   exported, stacks, pos>>

\* lines 389-394 once the slide loop is over: clean_scipy_cache and, with
\* keep_all, one iteration of the loop over allcorr.keys(), one
\* export_allcorr2 call
Export(r) ==
    /\ pc[r] = "slide"
    /\ todo[r] = <<>>
    /\ IF params.keep_all /\ keys[r] # <<>>
       THEN /\ exported' = exported \cup
                               export_allcorr2(allcorr[r], goal_day(jobs[r]),
                                               keys[r][pos[r] + 1])
            /\ IF pos[r] + 1 = Len(keys[r])
               THEN /\ pc' = [pc EXCEPT ![r] = "stack"]
                    /\ pos' = [pos EXCEPT ![r] = 0]
               ELSE /\ pos' = [pos EXCEPT ![r] = @ + 1]
                    /\ UNCHANGED pc
       ELSE /\ pc' = [pc EXCEPT ![r] = "stack"]
            /\ UNCHANGED <<exported, pos>>
    /\ UNCHANGED <<params, archive, cc, stackjobs, holders, jobs, stream,
                   todo, allcorr, stacks, wins, keys>>

\* main() without the keep_days block
StackSkipped(r) ==
    /\ pc[r] = "stack"
    /\ pc' = [pc EXCEPT ![r] = "markdone"]
    /\ UNCHANGED <<params, archive, cc, stackjobs, holders, jobs, stream,
                   todo, allcorr, exported, stacks, wins, keys, pos>>

\* lines 396-420: with keep_days, one iteration of the loop over
\* allcorr.keys(), one add_corr call
Stack(r) ==
    /\ pc[r] = "stack"
    /\ IF params.keep_days /\ keys[r] # <<>>
       THEN /\ stacks' = PutStacks(stacks,
                                   {DailyStack(allcorr[r], goal_day(jobs[r]),
                                               keys[r][pos[r] + 1])})
            /\ IF pos[r] + 1 = Len(keys[r])
               THEN /\ pc' = [pc EXCEPT ![r] = "markdone"]
                    /\ pos' = [pos EXCEPT ![r] = 0]
               ELSE /\ pos' = [pos EXCEPT ![r] = @ + 1]
                    /\ UNCHANGED pc
       ELSE /\ pc' = [pc EXCEPT ![r] = "markdone"]
            /\ UNCHANGED <<stacks, pos>>
    /\ UNCHANGED <<params, archive, cc, stackjobs, holders, jobs, stream,
                   todo, allcorr, exported, wins, keys>>

\* main() without the massive_update_job call
MarkDoneSkipped(r) ==
    /\ pc[r] = "markdone"
    /\ pc' = [pc EXCEPT ![r] = "enqueue"]
    /\ UNCHANGED <<params, archive, cc, stackjobs, holders, jobs, stream,
                   todo, allcorr, exported, stacks, wins, keys, pos>>

\* lines 422-423: the one massive_update_job call
MarkDone(r) ==
    /\ pc[r] = "markdone"
    /\ cc' = massive_update_job(cc, jobs[r], "D")
    /\ pc' = [pc EXCEPT ![r] = "enqueue"]
    /\ UNCHANGED <<params, archive, stackjobs, holders, jobs, stream, todo,
                   allcorr, exported, stacks, wins, keys, pos>>

\* lines 425-426: one iteration of the loop over the jobs of the batch, one
\* update_job call; lines 428-432 and the next pass of the while loop
\* follow the last
Enqueue(r) ==
    /\ pc[r] = "enqueue"
    /\ stackjobs' = enqueue_stack(stackjobs, JobSeq(jobs[r])[pos[r] + 1])
    /\ IF pos[r] + 1 = Len(JobSeq(jobs[r]))
       THEN /\ pc' = [pc EXCEPT ![r] = "check"]
            /\ Idle(r)
       ELSE /\ pos' = [pos EXCEPT ![r] = @ + 1]
            /\ UNCHANGED <<pc, jobs, stream, todo, allcorr, wins, keys>>
    /\ UNCHANGED <<params, archive, cc, holders, exported, stacks>>

\* the process is terminated externally while it holds a batch
Kill(r) ==
    /\ pc[r] \in Holding
    /\ pc' = [pc EXCEPT ![r] = "killed"]
    /\ UNCHANGED <<params, archive, cc, stackjobs, holders, jobs, stream,
                   todo, allcorr, exported, stacks, wins, keys, pos>>

Step(r) ==
    \/ Startup(r)
    \/ IsNext(r)
    \/ GetNext(r)
    \/ Preprocess(r)
    \/ MarkEmpty(r)
    \/ Slide(r)
    \/ Export(r)
    \/ Stack(r)
    \/ MarkDone(r)
    \/ Enqueue(r)

Next == \E r \in Runners : Step(r) \/ Kill(r)

InitRunners ==
    /\ stackjobs = [k \in JobKeys |-> 0]
    /\ holders = [k \in JobKeys |-> {}]
    /\ jobs = [r \in Runners |-> {}]
    /\ stream = [r \in Runners |-> NoTraces]
    /\ todo = [r \in Runners |-> <<>>]
    /\ allcorr = [r \in Runners |-> {}]
    /\ exported = {}
    /\ stacks = {}
    /\ wins = [r \in Runners |-> <<>>]
    /\ keys = [r \in Runners |-> <<>>]
    /\ pos = [r \in Runners |-> 0]

\* every instance is launched and every pair of every day is Todo: the job
\* table under contention
InitQueue ==
    /\ pc = [r \in Runners |-> "start"]
    /\ params \in FewParamSets
    /\ archive \in [Days -> FewBundles]
    /\ cc = [k \in JobKeys |-> "T"]

\* one instance is launched and the pairs of the first day are Todo: any
\* configuration, any bundle
InitDay ==
    /\ pc = [r \in Runners |-> IF r = 1 THEN "start" ELSE "off"]
    /\ params \in ParamSets
    /\ \E b \in Bundles :
          archive = [d \in Days |-> IF d = 1 THEN b ELSE EmptyBundle]
    /\ cc = [k \in JobKeys |-> IF k[1] = 1 THEN "T" ELSE "-"]

\* the same, with a long corr_duration
InitLong ==
    /\ pc = [r \in Runners |-> IF r = 1 THEN "start" ELSE "off"]
    /\ params \in LongParamSets
    /\ \E b \in LongBundles :
          archive = [d \in Days |-> IF d = 1 THEN b ELSE EmptyBundle]
    /\ cc = [k \in JobKeys |-> IF k[1] = 1 THEN "T" ELSE "-"]

\* the same, with three-component data
InitComp ==
    /\ pc = [r \in Runners |-> IF r = 1 THEN "start" ELSE "off"]
    /\ params \in CompParamSets
    /\ \E b \in CompBundles :
          archive = [d \in Days |-> IF d = 1 THEN b ELSE EmptyBundle]
    /\ cc = [k \in JobKeys |-> IF k[1] = 1 THEN "T" ELSE "-"]

Init == InitRunners /\ (InitQueue \/ InitDay \/ InitLong \/ InitComp)

Spec == Init /\ [][Next]_vars

\* The operating system keeps scheduling a process that has not exited, so
\* the line an instance is at is eventually run: weak fairness of its steps.
\* The condition WF_vars is written out, with ENABLED replaced by the
\* predicate it equals: the line the instance is at (for the window loop,
\* with or without a window left).
Light(r) ==
    \/ Startup(r)
    \/ IsNext(r)
    \/ GetNext(r)
    \/ MarkEmpty(r)
    \/ Export(r)
    \/ Stack(r)
    \/ MarkDone(r)
    \/ Enqueue(r)
Heavy(r) == Preprocess(r) \/ Slide(r)
HeavyEnabled(r) ==
    pc[r] = "preprocess" \/ (pc[r] = "slide" /\ todo[r] # <<>>)
LightEnabled(r) ==
    \/ pc[r] \in {"start", "check", "claim", "markempty", "stack", "markdone",
                  "enqueue"}
    \/ (pc[r] = "slide" /\ todo[r] = <<>>)
Fair(r) ==
    /\ []<>(~LightEnabled(r)) \/ []<><<Light(r)>>_vars
    /\ []<>(~HeavyEnabled(r)) \/ []<><<Heavy(r)>>_vars
FairSpec == Spec /\ \A r \in Runners : Fair(r)

----------------------------------------------------------------------------
(* Properties *)

\* the CC jobs that exist for day d, and the stream preprocess returns when
\* they are claimed as one batch
JobsOfDay(d) == {k \in JobKeys : k[1] = d /\ cc[k] # "-"}
DayStream(d) ==
    preprocess(archive, StationsOf(JobsOfDay(d)), CompsOf(params), d)

\* the samples a stream spans from its first to its last
Span(st) == Max({tr[2] : tr \in Traces(st)}) - Min({tr[1] : tr \in Traces(st)}) + 1

\* a stream without traces, or one that spans fewer samples than the
\* corr_duration * Fs of a window
EmptyOrShort(st) == DOMAIN st = {} \/ Span(st) < WinLen(params)

AllStopped == \A r \in Runners : pc[r] \in Stopped
AllFinished == \A r \in Runners : pc[r] = "finished"

\* C1: whatever the interleaving of the instances, a CC job is handed out by
\* get_next_job to at most one instance, is in the batch of at most one
\* instance, and while it is flagged "I" exactly the instance that received
\* it holds it.
C1_ExclusiveClaim ==
    \A k \in JobKeys :
        /\ Cardinality(holders[k]) <= 1
        /\ Cardinality({r \in Runners : k \in jobs[r]}) <= 1
        /\ cc[k] = "I" => \E r \in Runners : k \in jobs[r] /\ holders[k] = {r}

\* two instances saw a Todo job at line 195; one has received the batch and
\* the other is at get_next_job with nothing left to receive
C1_Witness ==
    \E r1, r2 \in Runners :
        /\ r1 # r2
        /\ pc[r2] = "claim"
        /\ jobs[r1] # {}
        /\ ~is_next_job(cc)

\* C2: under fair scheduling every instance eventually stops; an instance
\* leaves the loop only when is_next_job finds no Todo CC job; and once every
\* instance has left the loop that way (none crashed, none was killed) every
\* CC job is Done.
C2_LoopTerminates ==
    /\ <>AllStopped
    /\ [](AllFinished => \A k \in JobKeys : cc[k] \in {"-", "D"})
    /\ [][\A r \in Runners :
            (pc[r] # "finished" /\ pc'[r] = "finished") => ~is_next_job(cc)]_vars

\* both instances processed a batch, both left the loop, every job is Done
C2_Witness ==
    /\ AllFinished
    /\ \A k \in JobKeys : cc[k] = "D"
    /\ \E k1, k2 \in JobKeys : holders[k1] # {} /\ holders[k2] # {}
                               /\ holders[k1] # holders[k2]

\* C3: the step that ends the processing of a batch whose stream was not
\* empty leaves every job of the batch Done and exactly one STACK job Todo
\* for each of them, and enqueues no STACK job for any other (day, pair).
C3_DoneAndStackQueued ==
    [][\A r \in Runners :
          (pc[r] = "enqueue" /\ pc'[r] = "check") =>
              /\ \A k \in jobs[r] : cc'[k] = "D" /\ stackjobs'[k] = 1
              /\ \A k \in JobKeys \ jobs[r] : stackjobs'[k] = stackjobs[k]]_vars

\* a batch went through the window loop, its stacks are saved, its jobs are
\* Done and their STACK jobs are queued
C3_Witness ==
    \E d \in Days :
        /\ JobsOfDay(d) # {}
        /\ \A k \in JobsOfDay(d) : cc[k] = "D" /\ stackjobs[k] = 1
        /\ \E s \in stacks : s.day = d

\* what C4 says of day d: no daily stack is saved for it, the instance that
\* claimed it collects no correlation and is not stopped by an exception,
\* and once the instance has left the batch every job of the batch is Done
NothingToDo(d) ==
    /\ \A s \in stacks : s.day # d
    /\ \A r \in Runners :
          (jobs[r] # {} /\ goal_day(jobs[r]) = d) =>
              /\ allcorr[r] = {}
              /\ pc[r] # "crashed"
    /\ \A k \in JobsOfDay(d) :
          (holders[k] # {} /\ \A r \in Runners : k \notin jobs[r]) =>
              cc[k] = "D"

\* C4: for a day whose stream is empty or has fewer samples than one
\* correlation window no daily stack is saved, no exception is raised, no
\* correlation is collected, and the jobs of the batch are marked Done.
C4_EmptyOrShortBundle ==
    \A d \in Days : EmptyOrShort(DayStream(d)) => NothingToDo(d)

\* C5: with no filter defined no instance gets past the start of main(): no
\* CC job leaves Todo, no batch is claimed, no STACK job is enqueued, nothing
\* is exported or stacked.
C5_NoFiltersAborts ==
    Len(params.filters) = 0 =>
        /\ \A k \in JobKeys : cc[k] \in {"-", "T"} /\ stackjobs[k] = 0
                              /\ holders[k] = {}
        /\ \A r \in Runners : pc[r] \in {"start", "aborted", "off"}
                              /\ jobs[r] = {}
        /\ stacks = {}
        /\ exported = {}

\* no filter is defined, jobs are Todo, and every instance has exited
C5_Witness ==
    /\ Len(params.filters) = 0
    /\ is_next_job(cc)
    /\ \A r \in Runners : pc[r] = "aborted"

\* C6 (per-window part): no exception raised inside an iteration of the
\* slide loop stops an instance, whatever the bundle and the filter bands;
\* an instance stops on an exception only where slide itself cannot start.
C6_NoWindowAbortsJob ==
    \A r \in Runners : ~(pc[r] = "crashed" /\ ~SlideRaises(params))

\* the channels of stream st that have a gap in every window slide yields
GappedChannels(st, p) ==
    IF DOMAIN st = {} \/ SlideRaises(p) THEN {}
    ELSE LET ws == WindowStarts(st, p)
         IN IF ws = {} THEN {}
            ELSE {ch \in DOMAIN st :
                     \A i \in ws : ch \in channels_to_remove(Slice(st, i, p))}

\* the key <<station1, station2, components>> names channel ch
Involves(s1, s2, comps, ch) ==
    \/ s1 = ch[1] /\ comps[1] = ch[2]
    \/ s2 = ch[1] /\ comps[2] = ch[2]

\* C7: when a channel of the day has a gap in every window, no window
\* correlates it and no daily stack is saved for a key that names it; and
\* once the day's jobs are Done (keep_days set, maxlag fitting a window)
\* every requested pair and component pair whose two channels cover the
\* whole day without a gap has a daily stack for every filter.
C7_GappedChannelExcluded ==
    \A d \in Days :
        LET st == DayStream(d)
            gapped == GappedChannels(st, params)
        IN /\ (\E s \in stacks : s.day = d) =>
                 \A s \in stacks, ch \in gapped :
                     s.day = d =>
                       ~Involves(s.station1, s.station2, s.components, ch)
           /\ \A r \in Runners :
                 (jobs[r] # {} /\ goal_day(jobs[r]) = d /\ allcorr[r] # {}) =>
                     \A e \in allcorr[r], ch \in gapped :
                         ~Involves(e.ccfid[1], e.ccfid[2], e.ccfid[3], ch)
           /\ (/\ params.keep_days
               /\ ~TooShort(WinLen(params), params)
               /\ JobsOfDay(d) # {}
               /\ \A k \in JobsOfDay(d) : cc[k] = "D"
               /\ gapped # {}) =>
                 \A k \in JobsOfDay(d), c \in params.components_to_compute,
                    n \in 1..Len(params.filters) :
                     (/\ <<k[2][1], c[1]>> \in DOMAIN st
                      /\ <<k[2][2], c[2]>> \in DOMAIN st
                      /\ st[<<k[2][1], c[1]>>] = Full(params.corr_duration)
                      /\ st[<<k[2][2], c[2]>>] = Full(params.corr_duration)) =>
                         \E s \in stacks :
                             StackKey(s) = <<d, k[2][1], k[2][2], c,
                                             params.filters[n].ref>>

\* station C has a gap in every window of a day whose jobs are Done, and
\* the day has a stack for the pair A-B, whose channels are whole
C7_Witness ==
    \E d \in Days :
        /\ <<"C", "Z">> \in GappedChannels(DayStream(d), params)
        /\ JobsOfDay(d) # {}
        /\ \A k \in JobsOfDay(d) : cc[k] = "D"
        /\ {<<"A", "Z">>, <<"B", "Z">>} \subseteq DOMAIN DayStream(d)
        /\ DayStream(d)[<<"A", "Z">>] = Full(params.corr_duration)
        /\ DayStream(d)[<<"B", "Z">>] = Full(params.corr_duration)
        /\ \E s \in stacks : s.day = d /\ s.station1 = "A" /\ s.station2 = "B"

\* day d has a stream and each of its channels has every sample of the day
GapFreeDay(d) ==
    /\ DOMAIN DayStream(d) # {}
    /\ \A ch \in DOMAIN DayStream(d) :
          DayStream(d)[ch] = Full(params.corr_duration)

\* what C8 says of the gap-free day d sliced with overlap = 0: the window
\* start times still to come advance by corr_duration; no key has two daily
\* stacks; every daily stack of the day has ncorr = 1 day / corr_duration;
\* and once the day's jobs are Done (keep_days set, maxlag fitting a window)
\* every pair, requested component pair and filter has its daily stack
OneStackPerKeyOfFullCount(d) ==
    /\ \A r \in Runners :
          (jobs[r] # {} /\ goal_day(jobs[r]) = d) =>
              \A n \in 1..(Len(todo[r]) - 1) :
                  todo[r][n + 1] - todo[r][n] = WinLen(params)
    /\ \A s1, s2 \in stacks : StackKey(s1) = StackKey(s2) => s1 = s2
    /\ \A s \in stacks : s.day = d => s.ncorr = WinPerDay
    /\ (/\ params.keep_days
        /\ ~TooShort(WinLen(params), params)
        /\ \A k \in JobsOfDay(d) : cc[k] = "D") =>
          \A k \in JobsOfDay(d), c \in params.components_to_compute,
             n \in 1..Len(params.filters) :
              \E s \in stacks :
                  StackKey(s) = <<d, k[2][1], k[2][2], c, params.filters[n].ref>>

\* C8 as stated: for every corr_duration, a gap-free day sliced with
\* overlap = 0 gets one daily stack per key, of ncorr = 1 day / corr_duration.
C8_FullDayWindowCount ==
    \A d \in Days :
        (params.overlap2 = 0 /\ GapFreeDay(d)) => OneStackPerKeyOfFullCount(d)

\* C8 restricted to a corr_duration of more than 1000 samples, for which the
\* last window of the day, one sample short of corr_duration, is longer than
\* 99.9 % of corr_duration and is yielded by slide
C8_FullDayWindowCountLongWindow ==
    \A d \in Days :
        (params.overlap2 = 0 /\ GapFreeDay(d) /\ WinLen(params) > 1000) =>
            OneStackPerKeyOfFullCount(d)

\* a gap-free day of a long corr_duration is Done with overlap = 0 and has a
\* daily stack of WinPerDay windows
C8_Witness ==
    \E d \in Days :
        /\ params.overlap2 = 0
        /\ WinLen(params) > 1000
        /\ GapFreeDay(d)
        /\ JobsOfDay(d) # {}
        /\ \A k \in JobsOfDay(d) : cc[k] = "D"
        /\ \E s \in stacks : s.day = d /\ s.ncorr = WinPerDay

\* the windows of day d whose iteration writes a correlation for key id
Contributing(d, id) ==
    {i \in WindowStarts(DayStream(d), params) :
        \E e \in Window(DayStream(d), i, params).entries : e.ccfid = id}

\* C9: a daily stack exists only for a key to which at least one window of
\* the day contributed a correlation, and its ncorr is the number of windows
\* of the day that contributed one.
C9_StackCountsWindows ==
    \A s \in stacks :
        LET n == Cardinality(Contributing(s.day, <<s.station1, s.station2,
                                                   s.components, s.filterid>>))
        IN n >= 1 /\ s.ncorr = n

\* C10: every correlation kept for a window has 2*ceil(maxlag/dt)+1 samples,
\* and the FFT length of its window (which is at least the window's sample
\* count) is not smaller than that number of lag samples.
C10_EnoughSamplesForLags ==
    \A r \in Runners : \A e \in allcorr[r] :
        LET q == params.maxlag4 * Fs
            lags == 2 * (IF q % 4 = 0 THEN q \div 4 ELSE (q \div 4) + 1) + 1
        IN e.corr.npts = lags /\ e.corr.nfft >= lags

\* the iterations of the slide loop run so far for the batches in progress
Windows == UNION {{wins[r][n] : n \in DOMAIN wins[r]} : r \in Runners}

\* C11: the whitening policy is applied per correlated pair.  With
\* whitening = "C" (components different) a pair of equal component letters
\* is correlated from two un-whitened spectra and, in the same window, a
\* pair of different letters from two whitened spectra; with whitening =
\* "N" every pair is correlated from un-whitened spectra.
C11_WhiteningPerPair ==
    \A w \in Windows : \A pr \in w.pairs :
        /\ params.whitening = "C" =>
              IF pr.id[3][1] = pr.id[3][2]
              THEN ~w.ffts[pr.i1] /\ ~w.ffts[pr.i2]
              ELSE w.ffts[pr.i1] /\ w.ffts[pr.i2]
        /\ params.whitening = "N" => ~w.ffts[pr.i1] /\ ~w.ffts[pr.i2]

\* C12 as stated: a window in which fewer than two channels are left once
\* the channels with gaps are removed is discarded: it has no row of data
\* (no spectra) and no pair.
C12_FewerThanTwoDiscarded ==
    \A w \in Windows :
        Cardinality(DOMAIN w.nogaps) < 2 => w.names = <<>> /\ w.pairs = {}

\* C12 amended: a window in which no channel is left is discarded.  A
\* window in which exactly one channel is left is processed when that
\* channel is long enough for maxlag: it has one row of data and no pair but
\* the channel with itself, and that one only with autocorr set and the
\* doubled component letter requested.
C12_NoChannelDiscarded ==
    \A w \in Windows :
        /\ DOMAIN w.nogaps = {} => w.names = <<>> /\ w.pairs = {}
        /\ \A ch \in DOMAIN w.nogaps :
              DOMAIN w.nogaps = {ch} =>
                  /\ w.names = IF TooShort(w.nogaps[ch], params)
                               THEN <<>> ELSE <<ch>>
                  /\ w.pairs =
                        IF /\ w.names # <<>>
                           /\ params.autocorr
                           /\ <<ch[2], ch[2]>> \in params.components_to_compute
                        THEN {[id |-> <<ch[1], ch[1], <<ch[2], ch[2]>> >>,
                               i1 |-> 1, i2 |-> 1]}
                        ELSE {}

\* a window was left with one channel and correlated it with itself, and a
\* window was left with no channel
C12_Witness ==
    /\ \E w \in Windows : Cardinality(DOMAIN w.nogaps) = 1 /\ w.pairs # {}
    /\ \E w \in Windows : DOMAIN w.nogaps = {}

\* C13: in a window that reaches the spectra, the rows of data are the
\* channels left after the gap removal whose sample count is the largest
\* among them: every row has that count, and every channel of another count
\* is gone, however many there are and wherever they are in the order.
C13_SameSampleCount ==
    \A w \in Windows :
        w.names # <<>> =>
            LET most == Max({w.nogaps[ch] : ch \in DOMAIN w.nogaps})
            IN /\ \A n \in DOMAIN w.names : w.npts[n] = most
               /\ {w.names[n] : n \in DOMAIN w.names} =
                     {ch \in DOMAIN w.nogaps : w.nogaps[ch] = most}

\* a window reached the spectra after two shorter channels that follow each
\* other in the order of tmp were removed from it
C13_Witness ==
    \E w \in Windows :
        /\ w.names # <<>>
        /\ \E c1, c2 \in DOMAIN w.nogaps :
              /\ Rank(c1) < Rank(c2)
              /\ ~\E o \in DOMAIN w.nogaps : Rank(c1) < Rank(o) /\ Rank(o) < Rank(c2)
              /\ \A n \in DOMAIN w.names : w.names[n] \notin {c1, c2}

\* the channels of a slice that have no gap, and the largest sample count
\* among them
GapFree(sl) == {ch \in DOMAIN sl : Cardinality(sl[ch]) = 1}
FullLength(sl) == Max({npts(tr) : tr \in UNION {sl[ch] : ch \in GapFree(sl)}})

\* C14: the iterations of the slide loop leave the stream of the day as
\* preprocess returned it, and each window is cut from that stream and
\* judged on its own: whatever was dropped in earlier windows, the rows of a
\* window that reaches the spectra are all the channels that are gap-free
\* and of full length in that window.
C14_DropIsPerWindow ==
    /\ [][\A r \in Runners :
            (pc[r] = "slide" /\ jobs'[r] = jobs[r]) =>
                stream'[r] = stream[r] /\ archive' = archive]_vars
    /\ [](\A r \in Runners : \A n \in DOMAIN wins[r] :
            LET w == wins[r][n]
            IN /\ stream[r] = DayStream(goal_day(jobs[r]))
               /\ w.sliced = Slice(stream[r], w.start, params)
               /\ w.names # <<>> =>
                     {w.names[m] : m \in DOMAIN w.names} =
                        {ch \in GapFree(w.sliced) :
                            \A tr \in w.sliced[ch] :
                                npts(tr) = FullLength(w.sliced)})

\* a channel dropped from a window for a gap, and a channel dropped from a
\* window for its length, are rows of a later window of the same day, and
\* the windows they were dropped from reached the spectra without them
C14_Witness ==
    \E r \in Runners : \E n, m \in DOMAIN wins[r] :
        LET w == wins[r][n]
            later == {wins[r][m].names[k] : k \in DOMAIN wins[r][m].names}
        IN /\ n < m
           /\ w.names # <<>>
           /\ \E ch \in later : ch \in DOMAIN w.sliced \ GapFree(w.sliced)
           /\ \E ch \in later :
                 /\ ch \in GapFree(w.sliced)
                 /\ \A k \in DOMAIN w.names : w.names[k] # ch

\* C15: in a window that reaches the spectra, pair_index holds one entry for
\* every two different rows of data, and with autocorr set for every row
\* with itself, whose component letters (first row's, then second row's)
\* are in components_to_compute, and nothing else; the entry is named after
\* the stations and letters of its two rows, holds their two row numbers,
\* and no two entries have the same name.
C15_PairsExhaustive ==
    \A w \in Windows :
        w.names # <<>> =>
            /\ w.pairs =
                  {[id |-> <<w.names[n][1], w.names[m][1],
                             <<w.names[n][2], w.names[m][2]>> >>,
                    i1 |-> n, i2 |-> m] :
                   <<n, m>> \in
                      {rows \in (DOMAIN w.names) \X (DOMAIN w.names) :
                          /\ rows[1] < rows[2]
                               \/ (rows[1] = rows[2] /\ params.autocorr)
                          /\ <<w.names[rows[1]][2], w.names[rows[2]][2]>>
                                \in params.components_to_compute}}
            /\ \A p1, p2 \in w.pairs : p1.id = p2.id => p1 = p2
            /\ \A n, m \in DOMAIN w.names : w.names[n] = w.names[m] => n = m

\* a window paired a row with itself and two different rows, and left out
\* two rows whose letters are not asked for
C15_Witness ==
    \E w \in Windows :
        /\ \E pr \in w.pairs : pr.i1 = pr.i2
        /\ \E pr \in w.pairs : pr.i1 < pr.i2
        /\ \E n, m \in DOMAIN w.names :
              /\ n < m
              /\ ~\E pr \in w.pairs : pr.i1 = n /\ pr.i2 = m

\* C16: in a window that reaches the spectra, the magnitude spectra of the
\* E row and of the N row of a station that has both are each the mean of
\* those two rows' spectra; the magnitude spectrum of any other row (a Z
\* row, the E or N row of a station without the other) is its own; and no
\* row's spectrum is a mean over rows of another station.
C16_HorizontalPooling ==
    \A w \in Windows : \A n \in DOMAIN w.names :
        LET sta == w.names[n][1]
            row(c) == {m \in DOMAIN w.names : w.names[m] = <<sta, c>>}
        IN /\ w.psds[n] =
                 IF /\ w.names[n][2] \in {"E", "N"}
                    /\ row("E") # {}
                    /\ row("N") # {}
                 THEN row("E") \cup row("N")
                 ELSE {n}
           /\ \A m \in w.psds[n] : w.names[m][1] = sta

\* a window holds the E, N and Z rows of one station and the N row of a
\* station that has no E row
C16_Witness ==
    \E w \in Windows :
        \E e, n, z, o \in DOMAIN w.names :
            /\ w.names[e][2] = "E" /\ w.names[n][2] = "N" /\ w.names[z][2] = "Z"
            /\ w.names[e][1] = w.names[n][1] /\ w.names[z][1] = w.names[n][1]
            /\ w.psds[e] = {e, n} /\ w.psds[n] = {e, n} /\ w.psds[z] = {z}
            /\ w.names[o][2] = "N" /\ w.names[o][1] # w.names[n][1]
            /\ w.psds[o] = {o}

\* the jobs instance r claimed and had not marked Done when it was killed
Stuck(r) == IF pc[r] = "killed" THEN {k \in jobs[r] : cc[k] = "I"} ELSE {}

\* C17: the jobs of a batch whose instance was killed before marking them
\* Done stay InProgress with that instance as their only holder: no step
\* of any instance changes their flag, hands them out, puts them in another
\* batch or enqueues a STACK job for them; and under fair scheduling the
\* other instances still all stop, those that leave the loop doing so with
\* no Todo job left.
C17_KilledBatchStaysInProgress ==
    /\ [][\A r \in Runners : \A k \in Stuck(r) :
            /\ k \in Stuck(r)'
            /\ holders'[k] = {r}
            /\ stackjobs'[k] = stackjobs[k]
            /\ \A o \in Runners \ {r} : k \notin jobs'[o]]_vars
    /\ [](\A r \in Runners :
            Stuck(r) # {} =>
                <>(/\ AllStopped
                   /\ Stuck(r) # {}
                   /\ (\E o \in Runners : pc[o] = "finished") =>
                          ~is_next_job(cc)))

\* an instance was killed holding a batch that is still InProgress, the
\* other instance processed another day to Done and left the loop
C17_Witness ==
    \E r1, r2 \in Runners :
        /\ Stuck(r1) # {}
        /\ pc[r2] = "finished"
        /\ \E k \in JobKeys : holders[k] = {r2} /\ cc[k] = "D"
        /\ \E s \in stacks : holders[<<s.day, <<"A", "B">> >>] = {r2}

\* C18: whatever the overlap between 0 and 1, both included, the window
\* start times of a batch strictly increase, by multiples of a step
\* corr_duration * (1 - overlap) that is positive, and no instance is
\* stopped in stream.slide: the window loop ends and the batch goes on to
\* its completion.
C18_WindowLoopCompletes ==
    \A r \in Runners :
        /\ \A n \in 1..(Len(todo[r]) - 1) :
              /\ todo[r][n] < todo[r][n + 1]
              /\ (todo[r][n + 1] - todo[r][n]) % SlideStep(params) = 0
        /\ ~(pc[r] = "crashed" /\ SlideRaises(params))

\* the CC flags that differ between two tables
Changed(old, new) == {k \in JobKeys : old[k] # new[k]}

\* C19: a step of an instance changes the flag of a CC job only from Todo
\* to InProgress for the jobs get_next_job returns to it, which become its
\* batch and nobody else's, or from InProgress to Done for jobs of its own
\* batch, in the loop over an empty day's jobs or in massive_update_job; a
\* claim that returns no job changes nothing but the instance's position,
\* which goes back to line 195; massive_update_job marks the whole batch
\* and nothing else, and an instance that leaves its batch leaves every
\* job of it Done.
C19_OwnBatchOnly ==
    [][/\ \A k \in Changed(cc, cc') :
             \E r \in Runners :
                 \/ /\ cc[k] = "T" /\ cc'[k] = "I"
                    /\ pc[r] = "claim"
                    /\ jobs'[r] = Changed(cc, cc')
                    /\ holders'[k] = {r}
                    /\ \A o \in Runners \ {r} : k \notin jobs'[o]
                 \/ /\ cc[k] = "I" /\ cc'[k] = "D"
                    /\ pc[r] \in {"markempty", "markdone"}
                    /\ <<pc[r], pos[r]>>' # <<pc[r], pos[r]>>
                    /\ Changed(cc, cc') \subseteq jobs[r]
                    /\ holders[k] = {r}
       /\ \A r \in Runners :
             (pc[r] = "claim" /\ pc'[r] = "check") =>
                 UNCHANGED <<cc, stackjobs, holders, jobs, stream, todo,
                             allcorr, exported, stacks, keys, pos>>
       /\ \A r \in Runners :
             (pc[r] = "markdone" /\ pc'[r] = "enqueue") =>
                 Changed(cc, cc') = jobs[r]
       /\ \A r \in Runners :
             (jobs[r] # {} /\ jobs'[r] = {}) =>
                 \A k \in jobs[r] : cc'[k] = "D"]_vars

\* an instance has marked its batch Done while the other instance, in the
\* loop over the jobs of an empty day, has marked one job of its batch and
\* not yet the other
C19_Witness ==
    \E r1, r2 \in Runners :
        /\ r1 # r2
        /\ pc[r1] = "enqueue"
        /\ \A k \in jobs[r1] : cc[k] = "D"
        /\ pc[r2] = "markempty"
        /\ \E k1, k2 \in jobs[r2] : cc[k1] = "D" /\ cc[k2] = "I"

\* what the batch of instance r has to write: the window-level exports with
\* keep_all, the daily stacks with keep_days
Persisted(r) ==
    /\ params.keep_all =>
          \A e \in allcorr[r] :
              [day |-> goal_day(jobs[r]), ccfid |-> e.ccfid,
               thistime |-> e.thistime] \in exported
    /\ params.keep_days =>
          DailyStacks(allcorr[r], goal_day(jobs[r])) \subseteq stacks

\* C20: a batch is marked Done only after its exports and daily stacks are
\* written, and the STACK job of a (day, pair) is enqueued only after its
\* CC job is marked Done: an instance about to mark its batch Done, or
\* that has done so, has everything of the batch written; the step that
\* marks Done enqueues nothing; a step that enqueues a STACK job finds the
\* CC job of that (day, pair) Done and writes nothing else; in the loop
\* that enqueues, the jobs the loop has been through have one STACK job
\* and the others none; and a STACK job exists for a (day, pair) only if
\* its CC job is Done.
C20_PersistThenDoneThenStack ==
    /\ [](\A k \in JobKeys : stackjobs[k] > 0 => cc[k] = "D")
    /\ [](\A r \in Runners :
            /\ pc[r] = "markdone" =>
                  Persisted(r) /\ \A k \in jobs[r] : cc[k] = "I"
            /\ pc[r] = "enqueue" =>
                  Persisted(r) /\ \A k \in jobs[r] :
                      /\ cc[k] = "D"
                      /\ stackjobs[k] =
                             IF \E n \in 1..pos[r] : JobSeq(jobs[r])[n] = k
                             THEN 1 ELSE 0)
    /\ [][/\ \A r \in Runners :
               (pc[r] = "markdone" /\ pc'[r] = "enqueue") =>
                   UNCHANGED <<stackjobs, exported, stacks>>
          /\ \A k \in JobKeys :
               stackjobs'[k] # stackjobs[k] =>
                   /\ cc[k] = "D"
                   /\ stackjobs'[k] = stackjobs[k] + 1
                   /\ UNCHANGED <<cc, exported, stacks>>
                   /\ \E r \in Runners : pc[r] = "enqueue" /\ k \in jobs[r]]_vars

\* a batch with window-level exports and daily stacks written has been
\* marked Done, the STACK job of its first pair is enqueued and that of
\* its second pair is not yet
C20_Witness ==
    \E r \in Runners :
        /\ pc[r] = "enqueue"
        /\ allcorr[r] # {}
        /\ \E s \in stacks : s.day = goal_day(jobs[r])
        /\ \E e \in exported : e.day = goal_day(jobs[r])
        /\ \A k \in jobs[r] : cc[k] = "D"
        /\ \E k1, k2 \in jobs[r] : stackjobs[k1] = 1 /\ stackjobs[k2] = 0

====
